---- MODULE Spec2Model ----
(***************************************************************************)
(* A model of gdnp.py, the GDML to MCNP converter.                         *)
(*                                                                         *)
(* Three specifications share the module:                                  *)
(*   SpecLoad  load_gdml: the two passes that build the ownership graph;   *)
(*   Spec      dump_mcnp: the recursive process_cell walk with the three   *)
(*             registries, followed by the writer;                         *)
(*   SpecConv  convert_gdml_volume as a function of its two arguments.     *)
(*                                                                         *)
(* Python floats are modelled in fixed point: the integer n stands for the *)
(* float n / One.  Every input of the model is a multiple of 1 / One, and  *)
(* every product and quotient computed from them is exact.                 *)
(***************************************************************************)
EXTENDS Integers, Sequences, FiniteSets, TLC

VARIABLES
    \* load_gdml
    lpc,            \* position in load_gdml
    gdml,           \* the parsed document
    solids,         \* dict: solid name -> solid element
    materials,      \* dict: material name -> material element
    cells,          \* dict: structure ref -> cell
    children,       \* the local variable "children" (line 70), which outlives its loop
    sidx,           \* index of the next structure of the first pass
    todo,           \* refs that cells.iteritems() has still to yield
    world,          \* the value load_gdml returns
    \* dump_mcnp
    pc,             \* position in dump_mcnp
    tree,           \* the world argument: the cells, by node
    path,           \* the path argument
    stack,          \* the active process_cell invocations, innermost last
    surfaces,       \* MCNPSurface.surfaces
    mcnp_cells,     \* MCNPCell.cells
    mcnp_materials, \* MCNPMaterial.materials
    outfile,        \* the destination file: "unopened", "open" or "closed"
    deck,           \* the lines sent to the destination (the file, or standard output)
    calls,          \* history: one record per MCNPSurface / MCNPMaterial construction
    emitted,        \* history: one record per completed process_cell invocation
    \* convert_gdml_volume
    cpc, cvolume, cposition, cresult

loadVars == <<lpc, gdml, solids, materials, cells, children, sidx, todo, world>>
dumpVars == <<pc, tree, path, stack, surfaces, mcnp_cells, mcnp_materials,
              outfile, deck, calls, emitted>>
convVars == <<cpc, cvolume, cposition, cresult>>
vars == <<loadVars, dumpVars, convVars>>

\* Python's None, where the program holds either None or a record.
None == [none |-> TRUE]

(***************************************************************************)
(* Numbers.                                                                *)
(***************************************************************************)
\* The float 1.0 (the factor of the unit "cm").
One == 20

FMul(a, b) == (a * b) \div One
FDiv(a, b) == (a * One) \div b

Abs(n) == IF n < 0 THEN -n ELSE n

\* str() of a Python int.
StrInt(n) == ToString(n)

\* str() of a Python float: sign, integer part, ".", and the fractional digits
\* without trailing zeros (at least one digit).
StrFloat(x) ==
    LET a == Abs(x)
        h == ((a % One) * 100) \div One
        frac == IF h % 10 = 0 THEN ToString(h \div 10)
                ELSE IF h < 10 THEN "0" \o ToString(h)
                ELSE ToString(h)
    IN  (IF x < 0 THEN "-" ELSE "") \o ToString(a \div One) \o "." \o frac

\* The numerals the model reads: what str() writes, and the integer numerals of
\* the documents.
FloatRange == ((-3 * One) .. (6 * One)) \cup ((98 * One) .. (104 * One))
Numerals == {<<StrFloat(v), v>> : v \in FloatRange}
            \cup {<<StrInt(n), n * One>> : n \in {-2, -1, 0, 1, 2, 4, 270, 360}}

NumeralValue ==
    [s \in {p[1] : p \in Numerals} |-> (CHOOSE p \in Numerals : p[1] = s)[2]]

\* float() of a numeral.
Float(s) == NumeralValue[s]

\* A number of a surface card: a Python int or a Python float.
PyInt(n) == <<"int", n>>
PyFloat(x) == <<"float", x>>
Str(v) == IF v[1] = "int" THEN StrInt(v[2]) ELSE StrFloat(v[2])

(***************************************************************************)
(* Results: a value, or the exception raised.                              *)
(***************************************************************************)
Ok == "ok"
Return(v) == [err |-> Ok, val |-> v]
Raise(e) == [err |-> e, val |-> <<>>]

(***************************************************************************)
(* convert_gdml_unit, convert_gdml_position                                *)
(***************************************************************************)
UnitNames == {"m", "cm", "mm", "g/cm3"}

convert_gdml_unit(unit) ==
    IF unit \notin UnitNames THEN Raise("KeyError")
    ELSE Return(CASE unit = "m" -> 100 * One
                  [] unit = "cm" -> One
                  [] unit = "mm" -> One \div 10
                  [] unit = "g/cm3" -> One)

convert_gdml_position(position) ==
    LET unit == convert_gdml_unit(position.unit)
    IN  IF unit.err # Ok THEN unit
        ELSE Return(<<FMul(Float(position.x), unit.val),
                      FMul(Float(position.y), unit.val),
                      FMul(Float(position.z), unit.val)>>)

(***************************************************************************)
(* The primitive converters.  A SurfaceSpec is <<sign, kind, arg, ...>>.   *)
(***************************************************************************)
convert_gdml_tube(volume, placement) ==
    IF Float(volume.startphi) # 0 \/ Float(volume.deltaphi) < 360 * One
    THEN Raise("NotImplemented: extruded tube")
    ELSE IF placement[1] # 0 \/ placement[2] # 0
    THEN Raise("NotImplemented: offset tube")
    ELSE LET unit == convert_gdml_unit(volume.lunit)
         IN  IF unit.err # Ok THEN unit
             ELSE LET r == FMul(Float(volume.rmax), unit.val)
                      dz == FMul(Float(volume.z), unit.val)
                      half == One \div 2
                  IN  Return(<<
                        <<-1, "CZ", PyFloat(r)>>,
                        <<1, "PZ", PyFloat(FMul(-half, dz) + placement[3])>>,
                        <<-1, "PZ", PyFloat(FMul(half, dz) + placement[3])>> >>)

convert_gdml_ellipsoid(volume, placement) ==
    LET ax == Float(volume.ax)
        by == Float(volume.by)
        cz == Float(volume.cz)
        z0 == Float(volume.zcut1)
        z1 == Float(volume.zcut2)
        sq == <<-1, "SQ", PyFloat(FDiv(One, FMul(ax, ax))),
                PyFloat(FDiv(One, FMul(by, by))),
                PyFloat(FDiv(One, FMul(cz, cz))),
                PyInt(0), PyInt(0), PyInt(0), PyInt(1),
                PyFloat(placement[1]), PyFloat(placement[2]),
                PyFloat(placement[3])>>
        lo == IF z0 > -cz THEN << <<1, "PZ", PyFloat(z0 + placement[3])>> >>
              ELSE <<>>
        hi == IF z1 < cz THEN << <<-1, "PZ", PyFloat(z1 + placement[3])>> >>
              ELSE <<>>
    IN  Return(<<sq>> \o lo \o hi)

(***************************************************************************)
(* convert_gdml_volume                                                     *)
(***************************************************************************)
\* globals()["convert_gdml_" + tag], called with (volume[1], placement)
Dispatch(tag, attrib, placement) ==
    CASE tag = "tube" -> convert_gdml_tube(attrib, placement)
      [] tag = "ellipsoid" -> convert_gdml_ellipsoid(attrib, placement)
      [] OTHER -> Raise("NotImplemented: " \o tag)

Placement(position) ==
    IF position # None THEN convert_gdml_position(position)
    ELSE Return(<<0, 0, 0>>)

\* A faulty variant of the record below: the offset of the second operand is
\* left out.
IntersectionOffsetDropped(placement, transform) ==
    [x |-> StrFloat(placement[1]), y |-> StrFloat(placement[2]),
     z |-> StrFloat(placement[3]), unit |-> "cm"]

\* The position record t that the intersection branch builds (lines 256-259).
IntersectionOffset(placement, transform) ==
    [x |-> StrFloat(placement[1] + transform[1]),
     y |-> StrFloat(placement[2] + transform[2]),
     z |-> StrFloat(placement[3] + transform[3]),
     unit |-> "cm"]

\* The operands of a boolean solid are pairs (tag, attrib), without the fourth
\* element volume[3] that the intersection branch reads.
RECURSIVE convert_gdml_volume(_, _)
convert_gdml_volume(volume, position) ==
    LET placement == Placement(position)
    IN  IF placement.err # Ok THEN placement
        ELSE IF volume.tag = "intersection"
        THEN IF "position" \notin DOMAIN volume THEN Raise("IndexError")
             ELSE
             LET transform == convert_gdml_position(volume.position)
             IN  IF transform.err # Ok THEN transform
                 ELSE LET t == IntersectionOffset(placement.val, transform.val)
                          first == convert_gdml_volume(volume.first, position)
                      IN  IF first.err # Ok THEN first
                          ELSE LET second == convert_gdml_volume(volume.second, t)
                               IN  IF second.err # Ok THEN second
                                   ELSE Return(first.val \o second.val)
        ELSE Dispatch(volume.tag, volume.attrib, placement.val)

(***************************************************************************)
(* SpecConv: convert_gdml_volume applied to one volume and one position.   *)
(***************************************************************************)
Tube(rmax, z, lunit, startphi, deltaphi) ==
    [tag |-> "tube",
     attrib |-> [rmax |-> rmax, z |-> z, lunit |-> lunit,
                 startphi |-> startphi, deltaphi |-> deltaphi]]

Ellipsoid(ax, by, cz, zcut1, zcut2) ==
    [tag |-> "ellipsoid",
     attrib |-> [ax |-> ax, by |-> by, cz |-> cz,
                 zcut1 |-> zcut1, zcut2 |-> zcut2]]

Position(x, y, z, unit) == [x |-> x, y |-> y, z |-> z, unit |-> unit]

Material(name, value, unit) == [name |-> name, D |-> [value |-> value, unit |-> unit]]

Air1 == Material(<<"Air", "0x1234567">>, "1", "g/cm3")
Air2 == Material(<<"Air", "0x89abcde">>, "2", "g/cm3")
Lead == Material(<<"Lead", "0x1234567">>, "4", "g/cm3")
Water == Material(<<"Water", "0x89abcde">>, "1", "kg/m3")

Boolean(op, first, second, position) ==
    [tag |-> op, first |-> first, second |-> second, position |-> position]

PrimitiveInputs ==
    {Tube("1", "2", "cm", "0", "360"),
     Tube("1", "4", "mm", "0", "360"),
     Tube("1", "2", "cm", "0", "270"),
     Tube("1", "2", "in", "0", "360"),
     Ellipsoid("1", "2", "2", "-2", "2"),
     Ellipsoid("2", "1", "2", "-1", "1"),
     [tag |-> "box", attrib |-> [x |-> "1"]]}

OffsetInputs ==
    {Position("0", "0", "0", "cm"), Position("0", "0", "1", "cm"),
     Position("0", "0", "1", "m"),
     Position("0", "0", "4", "mm"), Position("1", "0", "-1", "cm"),
     Position("0", "0", "1", "in")}

PositionInputs ==
    {None, Position("0", "0", "1", "cm"), Position("0", "0", "4", "mm"),
     Position("0", "1", "2", "cm"), Position("0", "0", "1", "in")}

VolumeInputs ==
    PrimitiveInputs
    \cup {Boolean(op, a, b, o) : op \in {"intersection"},
                                 a \in PrimitiveInputs, b \in PrimitiveInputs,
                                 o \in OffsetInputs}
    \cup {Boolean(op, Tube("1", "2", "cm", "0", "360"),
                  Ellipsoid("1", "2", "2", "-2", "2"),
                  Position("0", "0", "0", "cm")) : op \in {"union", "subtraction"}}

ConvIdle == cpc = "idle" /\ cvolume = None /\ cposition = None /\ cresult = None

LoadIdle ==
    /\ lpc = "idle" /\ gdml = None /\ solids = <<>> /\ materials = <<>>
    /\ cells = <<>> /\ children = <<>> /\ sidx = 0 /\ todo = {} /\ world = None

DumpIdle ==
    /\ pc = "idle" /\ tree = <<>> /\ path = None /\ stack = <<>>
    /\ surfaces = <<>> /\ mcnp_cells = <<>> /\ mcnp_materials = <<>>
    /\ outfile = "unopened" /\ deck = <<>> /\ calls = <<>> /\ emitted = <<>>

InitConv ==
    /\ cpc = "call"
    /\ cvolume \in VolumeInputs
    /\ cposition \in PositionInputs
    /\ cresult = None
    /\ LoadIdle
    /\ DumpIdle

ConvertVolume ==
    /\ cpc = "call"
    /\ cresult' = convert_gdml_volume(cvolume, cposition)
    /\ cpc' = "done"
    /\ UNCHANGED <<cvolume, cposition, loadVars, dumpVars>>

SpecConv == InitConv /\ [][ConvertVolume]_vars

(***************************************************************************)
(* Strings.                                                                *)
(***************************************************************************)
RECURSIVE Join(_, _)
\* sep.join(strings)
Join(strings, sep) ==
    IF strings = <<>> THEN ""
    ELSE IF Len(strings) = 1 THEN strings[1]
    ELSE strings[1] \o sep \o Join(Tail(strings), sep)

\* The pieces of a name that the pattern "0x......." matches.
Pointers == {"0x1234567", "0x89abcde"}

\* re.sub("0x.......", "", name), the name being given as its pieces.
StripPointers(name) == Join(SelectSeq(name, LAMBDA piece : piece \notin Pointers), "")

(***************************************************************************)
(* The registries of dump_mcnp.                                            *)
(***************************************************************************)
\* A faulty variant of the key below: the sign is part of it.
SurfaceKeySigned(s) == [i \in 1 .. Len(s) |->
                          IF i = 1 THEN StrInt(s[1])
                          ELSE IF i = 2 THEN s[2] ELSE Str(s[i])]

\* tuple(map(str, args)) of MCNPSurface(s[1:]): the sign s[0] is left out.
SurfaceKey(s) == [i \in 1 .. (Len(s) - 1) |-> IF i = 1 THEN s[2] ELSE Str(s[i + 1])]

\* MCNPSurface.__init__: the table after the call, and the object's fields.
MCNPSurface(table, s) ==
    LET args == SurfaceKey(s)
    IN  IF args \in DOMAIN table
        THEN [surfaces |-> table, index |-> table[args].index,
              args |-> table[args].args]
        ELSE LET index == Cardinality(DOMAIN table) + 1
             IN  [surfaces |-> table @@ (args :> [index |-> index, args |-> args]),
                  index |-> index, args |-> args]

RECURSIVE RegisterSurfaces(_, _)
\* outer_surfaces = [s[0] * MCNPSurface(s[1:]).index for s in surfaces]
RegisterSurfaces(table, specs) ==
    IF specs = <<>> THEN [surfaces |-> table, outer |-> <<>>, log |-> <<>>]
    ELSE LET s == Head(specs)
             m == MCNPSurface(table, s)
             rest == RegisterSurfaces(m.surfaces, Tail(specs))
         IN  [surfaces |-> rest.surfaces,
              outer |-> <<s[1] * m.index>> \o rest.outer,
              log |-> <<[class |-> "MCNPSurface", arg |-> s, index |-> m.index]>>
                      \o rest.log]

\* A faulty variant of the key below: the name without its pointer suffix.
MaterialKeySanitized(material) == <<StripPointers(material.name)>>

\* The key of MCNPMaterial.materials: gdml.attrib["name"].
MaterialKey(material) == material.name

\* MCNPMaterial.__init__.  The object is stored before its density is computed,
\* so a failing unit leaves an entry with an index alone.
MCNPMaterial(table, material) ==
    LET name == MaterialKey(material)
    IN  IF name \in DOMAIN table
        THEN [err |-> Ok, materials |-> table, index |-> table[name].index,
              density |-> table[name].density]
        ELSE LET index == Cardinality(DOMAIN table) + 1
                 unit == convert_gdml_unit(material.D.unit)
             IN  IF unit.err # Ok
                 THEN [err |-> unit.err,
                       materials |-> table @@ (name :> [index |-> index]),
                       index |-> index, density |-> 0]
                 ELSE LET density == FMul(Float(material.D.value), unit.val)
                      IN  [err |-> Ok,
                           materials |-> table @@ (name :>
                               [index |-> index, density |-> density,
                                name |-> StripPointers(name)]),
                           index |-> index, density |-> density]

\* A faulty variant of the constructor below: the indices start at 0.
MCNPCellIndexFromZero(list, name, cellSurfaces, material, density) ==
    Append(list, [name |-> name, index |-> Len(list),
                  material |-> StrInt(material), density |-> StrFloat(density),
                  surfaces |-> Join(cellSurfaces, " ")])

\* MCNPCell.__init__
MCNPCell(list, name, cellSurfaces, material, density) ==
    Append(list, [name |-> name, index |-> Len(list) + 1,
                  material |-> StrInt(material), density |-> StrFloat(density),
                  surfaces |-> Join(cellSurfaces, " ")])

(***************************************************************************)
(* process_cell                                                            *)
(***************************************************************************)
\* map(str, ...) of a list of ints
StrInts(ints) == [i \in 1 .. Len(ints) |-> StrInt(ints[i])]

\* A faulty variant of the term below: the signs are kept.
ReturnTermNotNegated(outer_surfaces) ==
    "(" \o Join(StrInts(outer_surfaces), ":") \o ")"

\* The value process_cell returns (line 170).
ReturnTerm(outer_surfaces) ==
    "(" \o Join(StrInts([i \in 1 .. Len(outer_surfaces) |-> -outer_surfaces[i]]), ":")
        \o ")"

\* The position at which process_cell converts a cell (line 160).
CellPosition(cell) == cell.position

\* Lines 160-170 of one invocation, the loop over the children being done.
ProcessBody(cell, inner_surfaces) ==
    LET converted == convert_gdml_volume(cell.volume, CellPosition(cell))
    IN  IF converted.err # Ok
        THEN [err |-> converted.err, surfaces |-> surfaces,
              materials |-> mcnp_materials, cells |-> mcnp_cells,
              log |-> <<>>, outer |-> <<>>, ret |-> ""]
        ELSE
        LET registered == RegisterSurfaces(surfaces, converted.val)
            outer_surfaces == registered.outer
            material == MCNPMaterial(mcnp_materials, cell.material)
        IN  IF material.err # Ok
            THEN [err |-> material.err, surfaces |-> registered.surfaces,
                  materials |-> material.materials, cells |-> mcnp_cells,
                  log |-> registered.log, outer |-> outer_surfaces, ret |-> ""]
            ELSE [err |-> Ok, surfaces |-> registered.surfaces,
                  materials |-> material.materials,
                  cells |-> MCNPCell(mcnp_cells, cell.name,
                                     StrInts(outer_surfaces) \o inner_surfaces,
                                     material.index, material.density),
                  log |-> registered.log
                          \o <<[class |-> "MCNPMaterial", arg |-> cell.material,
                                index |-> material.index]>>,
                  outer |-> outer_surfaces,
                  ret |-> ReturnTerm(outer_surfaces)]

Top == stack[Len(stack)]

\* Line 157: the loop reaches a child, and process_cell is called on it.
CallChild ==
    /\ pc = "process_cell"
    /\ stack # <<>>
    /\ Top.i <= Len(tree[Top.node].children)
    /\ stack' = Append(stack, [node |-> tree[Top.node].children[Top.i], i |-> 1,
                               inner_surfaces |-> <<>>])
    /\ UNCHANGED <<pc, tree, path, surfaces, mcnp_cells, mcnp_materials, outfile,
                   deck, calls, emitted>>
    /\ UNCHANGED <<loadVars, convVars>>

\* Lines 160-170: the innermost invocation completes and returns to its caller
\* (line 157), or to dump_mcnp (line 172).
ProcessCellReturn ==
    /\ pc = "process_cell"
    /\ stack # <<>>
    /\ Top.i > Len(tree[Top.node].children)
    /\ \E body \in {ProcessBody(tree[Top.node], Top.inner_surfaces)},
          callers \in {SubSeq(stack, 1, Len(stack) - 1)} :
           /\ body.err = Ok
           /\ surfaces' = body.surfaces
           /\ mcnp_materials' = body.materials
           /\ mcnp_cells' = body.cells
           /\ calls' = calls \o body.log
           /\ emitted' = Append(emitted,
                  [node |-> Top.node, position |-> CellPosition(tree[Top.node]),
                   outer |-> body.outer, inner |-> Top.inner_surfaces,
                   ret |-> body.ret])
           /\ IF callers = <<>>
              THEN stack' = <<>> /\ pc' = "open"
              ELSE /\ stack' = [callers EXCEPT ![Len(callers)] =
                         [@ EXCEPT !.i = @ + 1,
                                   !.inner_surfaces = Append(@, body.ret)]]
                   /\ pc' = pc
    /\ UNCHANGED <<tree, path, outfile, deck>>
    /\ UNCHANGED <<loadVars, convVars>>

\* Lines 160-164 raise: the exception leaves every invocation and the program.
ProcessCellRaise ==
    /\ pc = "process_cell"
    /\ stack # <<>>
    /\ Top.i > Len(tree[Top.node].children)
    /\ \E body \in {ProcessBody(tree[Top.node], Top.inner_surfaces)} :
           /\ body.err # Ok
           /\ surfaces' = body.surfaces
           /\ mcnp_materials' = body.materials
           /\ calls' = calls \o body.log
           /\ pc' = "raised"
           /\ stack' = <<>>
    /\ UNCHANGED <<tree, path, mcnp_cells, outfile, deck, emitted>>
    /\ UNCHANGED <<loadVars, convVars>>

(***************************************************************************)
(* The writer of dump_mcnp.  textwrap's line wrapping is not modelled.     *)
(***************************************************************************)
\* write(*args): one line to the file, or to standard output
Write(lines, args) == Append(lines, Join(args, " "))

RECURSIVE WriteAll(_, _)
WriteAll(lines, argsList) ==
    IF argsList = <<>> THEN lines
    ELSE WriteAll(Write(lines, Head(argsList)), Tail(argsList))

\* "{:5d}".format(index)
format_index(index) ==
    (IF index < 10 THEN "    "
     ELSE IF index < 100 THEN "   "
     ELSE IF index < 1000 THEN "  "
     ELSE IF index < 10000 THEN " " ELSE "") \o StrInt(index)

\* "M{:<4d}".format(index)
MaterialCard(index) ==
    "M" \o StrInt(index) \o (IF index < 10 THEN "   "
                             ELSE IF index < 100 THEN "  "
                             ELSE IF index < 1000 THEN " " ELSE "")

\* 77 * "-"
Rule == "-----------------------------------------------------------------------------"

\* os.path.basename(gdml).upper()[:47], for the document "geometry.gdml"
FileName == "GEOMETRY.GDML"

Banner(title) == << <<"C", Rule>>, <<title>>, <<"C", Rule>> >>

RECURSIVE Flatten(_)
Flatten(lists) == IF lists = <<>> THEN <<>> ELSE Head(lists) \o Flatten(Tail(lists))

\* A faulty variant of the action below: the destination may be opened while
\* process_cell(world) is still running.
OpenOutputEarly ==
    /\ \/ pc = "process_cell" /\ outfile = "unopened" /\ path # None /\ pc' = pc
       \/ pc = "open" /\ pc' = "header"
    /\ outfile' = IF path # None THEN "open" ELSE outfile
    /\ UNCHANGED <<tree, path, stack, surfaces, mcnp_cells, mcnp_materials, deck,
                   calls, emitted>>
    /\ UNCHANGED <<loadVars, convVars>>

\* Lines 175-176
OpenOutput ==
    /\ pc = "open"
    /\ outfile' = IF path # None THEN "open" ELSE outfile
    /\ pc' = "header"
    /\ UNCHANGED <<tree, path, stack, surfaces, mcnp_cells, mcnp_materials, deck,
                   calls, emitted>>
    /\ UNCHANGED <<loadVars, convVars>>

\* Lines 192-194
WriteHeader ==
    /\ pc = "header"
    /\ deck' = WriteAll(deck, << <<"----- CONVERTED BY GDNP.PY FROM", FileName>>,
                                <<"">> >>)
    /\ pc' = "cells"
    /\ UNCHANGED <<tree, path, stack, surfaces, mcnp_cells, mcnp_materials, outfile,
                   calls, emitted>>
    /\ UNCHANGED <<loadVars, convVars>>

\* Lines 197-204
WriteCells ==
    /\ pc = "cells"
    /\ deck' = WriteAll(deck,
           Banner("C --- CELL CARDS")
           \o Flatten([k \in 1 .. Len(mcnp_cells) |->
                  << <<"C ---", mcnp_cells[k].name>>,
                     <<format_index(mcnp_cells[k].index), mcnp_cells[k].material,
                       mcnp_cells[k].density, mcnp_cells[k].surfaces>> >>])
           \o << <<"">> >>)
    /\ pc' = "surfaces"
    /\ UNCHANGED <<tree, path, stack, surfaces, mcnp_cells, mcnp_materials, outfile,
                   calls, emitted>>
    /\ UNCHANGED <<loadVars, convVars>>

\* sorted(...) of the (index, ...) pairs of a table: its entries by index
ByIndex(table) ==
    [k \in 1 .. Cardinality(DOMAIN table) |->
        table[CHOOSE key \in DOMAIN table : table[key].index = k]]

\* Lines 207-213
WriteSurfaces ==
    /\ pc = "surfaces"
    /\ deck' = WriteAll(deck,
           Banner("C --- SURFACE CARDS")
           \o [k \in 1 .. Cardinality(DOMAIN surfaces) |->
                  <<format_index(ByIndex(surfaces)[k].index),
                    Join(ByIndex(surfaces)[k].args, " ")>>]
           \o << <<"">> >>)
    /\ pc' = "materials"
    /\ UNCHANGED <<tree, path, stack, surfaces, mcnp_cells, mcnp_materials, outfile,
                   calls, emitted>>
    /\ UNCHANGED <<loadVars, convVars>>

\* Lines 216-222
WriteMaterials ==
    /\ pc = "materials"
    /\ deck' = WriteAll(deck,
           Banner("C --- DATA CARDS")
           \o Flatten([k \in 1 .. Cardinality(DOMAIN mcnp_materials) |->
                  << <<"C --- MATERIAL :", ByIndex(mcnp_materials)[k].name>>,
                     <<MaterialCard(ByIndex(mcnp_materials)[k].index),
                       "$ TODO: fill me">> >>]))
    /\ pc' = "close"
    /\ UNCHANGED <<tree, path, stack, surfaces, mcnp_cells, mcnp_materials, outfile,
                   calls, emitted>>
    /\ UNCHANGED <<loadVars, convVars>>

\* Lines 224-225
CloseOutput ==
    /\ pc = "close"
    /\ outfile' = IF path # None THEN "closed" ELSE outfile
    /\ pc' = "done"
    /\ UNCHANGED <<tree, path, stack, surfaces, mcnp_cells, mcnp_materials, deck,
                   calls, emitted>>
    /\ UNCHANGED <<loadVars, convVars>>

(***************************************************************************)
(* load_gdml                                                               *)
(*                                                                         *)
(* A document is [solids, materials, structure, world]: the elements of    *)
(* its three sections in document order, and the ref of setup/world.  A    *)
(* cell is a Python dict shared by reference: the model names it by its    *)
(* ref, as [cell |-> ref].                                                 *)
(***************************************************************************)
\* A dict as a function from its keys: the later of two equal keys wins.
RECURSIVE MapByName(_)
MapByName(elements) ==
    IF elements = <<>> THEN <<>>
    ELSE LET last == elements[Len(elements)]
         IN  (last.name :> last) @@ MapByName(SubSeq(elements, 1, Len(elements) - 1))

\* Lines 40-42
MapSolids ==
    /\ lpc = "solids"
    /\ solids' = MapByName(gdml.solids)
    /\ lpc' = "materials"
    /\ UNCHANGED <<gdml, materials, cells, children, sidx, todo, world>>
    /\ UNCHANGED <<dumpVars, convVars>>

\* Lines 45-47
MapMaterials ==
    /\ lpc = "materials"
    /\ materials' = MapByName(gdml.materials)
    /\ lpc' = "structure"
    /\ sidx' = 1
    /\ UNCHANGED <<gdml, solids, cells, children, todo, world>>
    /\ UNCHANGED <<dumpVars, convVars>>

\* Lines 53-63: the volume of a structure.
Geometry(structure) ==
    IF structure.solidref \notin DOMAIN solids THEN Raise("KeyError")
    ELSE LET solid == solids[structure.solidref]
         IN  IF solid.tag \in {"intersection", "subtraction", "union"}
             THEN IF solid.first \notin DOMAIN solids \/ solid.second \notin DOMAIN solids
                  THEN Raise("KeyError")
                  ELSE Return([tag |-> solid.tag,
                               first |-> [tag |-> solids[solid.first].tag,
                                          attrib |-> solids[solid.first].attrib],
                               second |-> [tag |-> solids[solid.second].tag,
                                           attrib |-> solids[solid.second].attrib],
                               position |-> solid.position])
             ELSE Return([tag |-> solid.tag, attrib |-> solid.attrib])

\* Lines 51-76: one structure of the first pass.
MapCell ==
    /\ lpc = "structure"
    /\ sidx <= Len(gdml.structure)
    /\ \E structure \in {gdml.structure[sidx]} :
         \E solid \in {Geometry(structure)} :
           /\ solid.err = Ok
           /\ structure.materialref \in DOMAIN materials
           /\ children' = structure.physvol
           /\ cells' = (structure.name :>
                          [name |-> StripPointers(structure.name),
                           volume |-> solid.val,
                           position |-> None,
                           material |-> materials[structure.materialref],
                           children |-> structure.physvol])
                       @@ cells
    /\ sidx' = sidx + 1
    /\ UNCHANGED <<lpc, gdml, solids, materials, todo, world>>
    /\ UNCHANGED <<dumpVars, convVars>>

\* Lines 54-67 raise KeyError: a solid or a material is missing.
MapCellRaise ==
    /\ lpc = "structure"
    /\ sidx <= Len(gdml.structure)
    /\ \E structure \in {gdml.structure[sidx]} :
         \/ Geometry(structure).err # Ok
         \/ structure.materialref \notin DOMAIN materials
    /\ lpc' = "raised"
    /\ UNCHANGED <<gdml, solids, materials, cells, children, sidx, todo, world>>
    /\ UNCHANGED <<dumpVars, convVars>>

\* Line 79: the first pass is over, and cells.iteritems() starts.
StartSecondPass ==
    /\ lpc = "structure"
    /\ sidx > Len(gdml.structure)
    /\ todo' = DOMAIN cells
    /\ lpc' = "children"
    /\ UNCHANGED <<gdml, solids, materials, cells, children, sidx, world>>
    /\ UNCHANGED <<dumpVars, convVars>>

\* The placements that the loop of line 83 goes through for a cell: the local
\* variable of line 70, whatever the cell.
LoopChildren(cell) == children

RECURSIVE SetPositions(_, _)
\* Lines 84-88, for each placement in turn: the positions of the cells after the
\* loop.  Every ref of the list is a key of the table.
SetPositions(table, placements) ==
    IF placements = <<>> THEN table
    ELSE LET child == Head(placements)
             updated == IF child.position # None
                        THEN [table EXCEPT ![child.volumeref].position = child.position]
                        ELSE table
         IN  SetPositions(updated, Tail(placements))

\* Lines 79-90: one cell of the second pass, in the order of the dict.
SetChildren ==
    /\ lpc = "children"
    /\ \E ref \in todo :
         /\ todo' = todo \ {ref}
         /\ IF cells[ref].children = <<>>
            THEN cells' = cells
            ELSE \E placements \in {LoopChildren(cells[ref])} :
                   /\ \A k \in 1 .. Len(placements) :
                        placements[k].volumeref \in DOMAIN cells
                   /\ cells' = [SetPositions(cells, placements) EXCEPT
                                  ![ref].children =
                                      [k \in 1 .. Len(placements) |->
                                          [cell |-> placements[k].volumeref]]]
    /\ UNCHANGED <<lpc, gdml, solids, materials, children, sidx, world>>
    /\ UNCHANGED <<dumpVars, convVars>>

\* Line 85 raises KeyError: a placement names no structure.
SetChildrenRaise ==
    /\ lpc = "children"
    /\ \E ref \in todo :
         /\ cells[ref].children # <<>>
         /\ \E k \in 1 .. Len(LoopChildren(cells[ref])) :
              LoopChildren(cells[ref])[k].volumeref \notin DOMAIN cells
    /\ lpc' = "raised"
    /\ UNCHANGED <<gdml, solids, materials, cells, children, sidx, todo, world>>
    /\ UNCHANGED <<dumpVars, convVars>>

\* Lines 93-96
GetWorld ==
    /\ lpc = "children"
    /\ todo = {}
    /\ gdml.world \in DOMAIN cells
    /\ world' = [cell |-> gdml.world]
    /\ lpc' = "done"
    /\ UNCHANGED <<gdml, solids, materials, cells, children, sidx, todo>>
    /\ UNCHANGED <<dumpVars, convVars>>

\* Line 94 raises KeyError: the world names no structure.
GetWorldRaise ==
    /\ lpc = "children"
    /\ todo = {}
    /\ gdml.world \notin DOMAIN cells
    /\ lpc' = "raised"
    /\ UNCHANGED <<gdml, solids, materials, cells, children, sidx, todo, world>>
    /\ UNCHANGED <<dumpVars, convVars>>

(***************************************************************************)
(* SpecLoad: load_gdml on one document.                                    *)
(***************************************************************************)
\* The largest number of structures of a document, and of placements in it.
MaxStructures == 3
MaxPlacements == 2

\* The ref of the k-th structure of a document.
Ref(k) == <<"Vol" \o StrInt(k), "0x1234567">>

Ghost == <<"Ghost", "0x89abcde">>

SolidElements ==
    << [tag |-> "tube", name |-> "T",
        attrib |-> [name |-> "T", rmax |-> "1", z |-> "2", lunit |-> "cm",
                    startphi |-> "0", deltaphi |-> "360"]],
       [tag |-> "ellipsoid", name |-> "E",
        attrib |-> [name |-> "E", ax |-> "1", by |-> "2", cz |-> "2",
                    zcut1 |-> "-2", zcut2 |-> "2"]],
       [tag |-> "intersection", name |-> "I", first |-> "T", second |-> "E",
        position |-> Position("0", "0", "1", "cm")] >>

\* A placement list as (parent, child, position) triples in document order.
PlacementLists(n) ==
    UNION {[1 .. m -> (1 .. n) \X ((1 .. n) \cup {0})
                      \X {None, Position("0", "0", "1", "cm")}]
           : m \in 0 .. MaxPlacements}

Physvols(placements, parent) ==
    LET own == SelectSeq(placements, LAMBDA p : p[1] = parent)
    IN  [k \in 1 .. Len(own) |->
            [volumeref |-> IF own[k][2] = 0 THEN Ghost ELSE Ref(own[k][2]),
             position |-> own[k][3]]]

InitLoad ==
    /\ lpc = "solids"
    /\ \E n \in 1 .. MaxStructures :
         \E placements \in PlacementLists(n) :
           \E refs \in {<<"T", Air1.name>>, <<"I", Air1.name>>,
                        <<"S", Air1.name>>, <<"T", Water.name>>} :
             \E w \in 0 .. n :
               gdml = [solids |-> SolidElements,
                       materials |-> <<Air1, Air2>>,
                       structure |-> [k \in 1 .. n |->
                           [name |-> Ref(k), solidref |-> refs[1],
                            materialref |-> refs[2],
                            physvol |-> Physvols(placements, k)]],
                       world |-> IF w = 0 THEN Ghost ELSE Ref(w)]
    /\ solids = <<>>
    /\ materials = <<>>
    /\ cells = <<>>
    /\ children = <<>>
    /\ sidx = 0
    /\ todo = {}
    /\ world = None
    /\ DumpIdle
    /\ ConvIdle

NextLoad ==
    \/ MapSolids
    \/ MapMaterials
    \/ MapCell
    \/ MapCellRaise
    \/ StartSecondPass
    \/ SetChildren
    \/ SetChildrenRaise
    \/ GetWorld
    \/ GetWorldRaise

SpecLoad == InitLoad /\ [][NextLoad]_vars

(***************************************************************************)
(* Spec: dump_mcnp on one ownership tree.                                  *)
(***************************************************************************)
\* The largest number of cells of a tree.
MaxCells == 3

CellInput(volume, position, material) ==
    [volume |-> volume, position |-> position, material |-> material]

CellInputs ==
    {CellInput(Tube("1", "2", "cm", "0", "360"), None, Air1),
     CellInput(Tube("1", "2", "cm", "0", "360"), Position("0", "0", "2", "cm"), Air2),
     CellInput(Ellipsoid("1", "2", "2", "-1", "2"), Position("1", "0", "-1", "cm"), Air1),
     CellInput(Boolean("intersection", Tube("1", "4", "mm", "0", "360"),
                       Ellipsoid("2", "1", "2", "-2", "2"),
                       Position("0", "0", "4", "mm")),
               Position("0", "0", "1", "cm"), Air2),
     CellInput(Ellipsoid("1", "2", "2", "-2", "2"), None, Lead),
     CellInput(Boolean("union", Tube("1", "2", "cm", "0", "360"),
                       Ellipsoid("1", "2", "2", "-2", "2"),
                       Position("0", "0", "0", "cm")), None, Air1),
     CellInput(Tube("1", "2", "cm", "0", "270"), None, Air2),
     CellInput(Tube("1", "2", "cm", "0", "360"), Position("1", "0", "0", "cm"), Air1),
     CellInput(Tube("1", "2", "cm", "0", "360"), None, Water)}

\* parent[n] is the node whose child n is; the world is node 1.
ParentVectors(n) ==
    {parent \in [1 .. n -> 0 .. n] :
        /\ parent[1] = 0
        /\ \A k \in 2 .. n : parent[k] >= 1 /\ parent[k] < k}

ChildrenOf(parent, n) ==
    SelectSeq([k \in 1 .. Len(parent) |-> k], LAMBDA k : parent[k] = n)

InitDump ==
    /\ pc = "process_cell"
    /\ \E n \in 1 .. MaxCells :
         \E parent \in ParentVectors(n) :
           \E input \in [1 .. n -> CellInputs] :
             /\ input[1].position = None
             /\ tree = [k \in 1 .. n |->
                          [name |-> "Cell" \o StrInt(k),
                           volume |-> input[k].volume,
                           position |-> input[k].position,
                           material |-> input[k].material,
                           children |-> ChildrenOf(parent, k)]]
    /\ path \in {None, [name |-> "mcnp.card"]}
    /\ stack = <<[node |-> 1, i |-> 1, inner_surfaces |-> <<>>]>>
    /\ surfaces = <<>>
    /\ mcnp_cells = <<>>
    /\ mcnp_materials = <<>>
    /\ outfile = "unopened"
    /\ deck = <<>>
    /\ calls = <<>>
    /\ emitted = <<>>
    /\ LoadIdle
    /\ ConvIdle

NextDump ==
    \/ CallChild
    \/ ProcessCellReturn
    \/ ProcessCellRaise
    \/ OpenOutput
    \/ WriteHeader
    \/ WriteCells
    \/ WriteSurfaces
    \/ WriteMaterials
    \/ CloseOutput

Spec == InitDump /\ [][NextDump]_vars

(***************************************************************************)
(* Properties of load_gdml (SpecLoad).                                     *)
(***************************************************************************)
StructureOf(ref) ==
    gdml.structure[CHOOSE k \in 1 .. Len(gdml.structure) : gdml.structure[k].name = ref]

RECURSIVE Paths(_, _)
\* The pairs joined by a path of at most k + 1 edges.
Paths(edges, k) ==
    IF k = 0 THEN edges
    ELSE LET shorter == Paths(edges, k - 1)
         IN  shorter \cup {<<p[1][1], p[2][2]>> :
                             p \in {q \in shorter \X edges : q[1][2] = q[2][1]}}

Acyclic(edges, n) == \A p \in Paths(edges, n) : p[1] # p[2]

\* The placements of the document, as (structure, entry) pairs and as edges.
DocumentPlacements ==
    UNION {{<<k, j>> : j \in 1 .. Len(gdml.structure[k].physvol)} :
           k \in 1 .. Len(gdml.structure)}

DocumentEdges ==
    {<<gdml.structure[p[1]].name, gdml.structure[p[1]].physvol[p[2]].volumeref>> :
        p \in DocumentPlacements}

\* The ownership graph that load_gdml built.
OwnershipEdges ==
    UNION {{<<ref, cells[ref].children[j].cell>> :
               j \in 1 .. Len(cells[ref].children)} :
           ref \in DOMAIN cells}

\* The placements of the document form a tree: every placement names a
\* structure, no structure is placed twice, and none is placed inside itself,
\* directly or transitively.
DocumentIsTree ==
    /\ \A p \in DocumentPlacements :
         \E k \in 1 .. Len(gdml.structure) :
            gdml.structure[k].name = gdml.structure[p[1]].physvol[p[2]].volumeref
    /\ \A p \in DocumentPlacements, q \in DocumentPlacements :
         (p # q) => gdml.structure[p[1]].physvol[p[2]].volumeref
                      # gdml.structure[q[1]].physvol[q[2]].volumeref
    /\ Acyclic(DocumentEdges, Len(gdml.structure))

\* C1: once load_gdml has returned, the children of every cell are the cells
\* that the volumeref of its own physvol entries name, in document order, and
\* the position of each such child is the position record of that entry; no
\* cell receives the physvol entries of another structure.  (Stated for the
\* documents whose placements form a tree.)
C1_ChildrenAreOwnPhysvols ==
    (lpc = "done" /\ DocumentIsTree) =>
        \A ref \in DOMAIN cells :
            LET own == StructureOf(ref).physvol
            IN  /\ Len(cells[ref].children) = Len(own)
                /\ \A k \in 1 .. Len(own) :
                     /\ cells[ref].children[k] = [cell |-> own[k].volumeref]
                     /\ cells[own[k].volumeref].position = own[k].position

\* C10: when the placements of the document form a finite tree (no structure is
\* placed inside itself, directly or transitively), the ownership graph that
\* load_gdml returns has no cycle, so that the walk of process_cell from the
\* world makes finitely many calls.
C10_OwnershipGraphAcyclic ==
    (lpc = "done" /\ DocumentIsTree)
        => Acyclic(OwnershipEdges, Len(gdml.structure))

(***************************************************************************)
(* Properties of dump_mcnp (Spec).                                         *)
(***************************************************************************)
Nodes == DOMAIN tree

ParentOf(n) ==
    CHOOSE parent \in Nodes :
        \E j \in 1 .. Len(tree[parent].children) : tree[parent].children[j] = n

\* The place of a node's record in the history of completed invocations.
EmittedAt(n) == CHOOSE k \in 1 .. Len(emitted) : emitted[k].node = n

Walked == pc \notin {"process_cell", "raised"}

\* C2: every completed invocation of process_cell has appended one TargetCell,
\* the k-th appended carrying index k; the TargetCell of a child is appended
\* before that of its parent; and when the walk is over the tree of N cells has
\* given N TargetCells, the last of them (index N) being the world's.
C2_OneTargetCellPerInvocationPostOrder ==
    /\ Len(mcnp_cells) = Len(emitted)
    /\ \A k \in 1 .. Len(mcnp_cells) : mcnp_cells[k].index = k
    /\ \A i \in 1 .. Len(emitted), j \in 1 .. Len(emitted) :
         (i # j) => emitted[i].node # emitted[j].node
    /\ \A i \in 1 .. Len(emitted) :
         \A c \in 1 .. Len(tree[emitted[i].node].children) :
            \E j \in 1 .. (i - 1) :
               /\ emitted[j].node = tree[emitted[i].node].children[c]
               /\ mcnp_cells[j].index < mcnp_cells[i].index
    /\ Walked =>
         /\ Len(mcnp_cells) = Len(tree)
         /\ emitted[Len(tree)].node = 1
         /\ mcnp_cells[Len(tree)].index = Len(tree)

C2_Witness ==
    /\ pc = "done"
    /\ Len(mcnp_cells) = 3
    /\ tree[2].children # <<>>

SurfaceCalls == SelectSeq(calls, LAMBDA c : c.class = "MCNPSurface")
MaterialCalls == SelectSeq(calls, LAMBDA c : c.class = "MCNPMaterial")

\* The stringified (kind, numeric-args) tuple of a SurfaceSpec.
KindAndArgs(s) == <<s[2]>> \o [i \in 1 .. (Len(s) - 2) |-> Str(s[i + 2])]

\* The index that interning in first-seen order gives the k-th key of a list.
FirstSeenIndex(keys, k) ==
    IF \E j \in 1 .. (k - 1) : keys[j] = keys[k]
    THEN Cardinality({keys[j] : j \in 1 .. (CHOOSE j \in 1 .. k : keys[j] = keys[k])})
    ELSE Cardinality({keys[j] : j \in 1 .. (k - 1)}) + 1

\* C3: over the surface internings of a run, the index returned depends on the
\* stringified (kind, numeric-args) tuple alone, never on the sign: a tuple
\* seen for the first time gets the number of distinct tuples seen so far,
\* counting from 1; a later interning of the tuple, with either sign, returns
\* that index; distinct tuples never share an index; and the registry keeps
\* the index of every tuple.
C3_SurfaceIndexByTupleNotSign ==
    LET keys == [k \in 1 .. Len(SurfaceCalls) |-> KindAndArgs(SurfaceCalls[k].arg)]
    IN  /\ \A k \in 1 .. Len(keys) :
             /\ SurfaceCalls[k].index = FirstSeenIndex(keys, k)
             /\ keys[k] \in DOMAIN surfaces
             /\ surfaces[keys[k]].index = SurfaceCalls[k].index
        /\ \A i \in 1 .. Len(keys), j \in 1 .. Len(keys) :
             (SurfaceCalls[i].index = SurfaceCalls[j].index) <=> (keys[i] = keys[j])

C3_Witness ==
    /\ pc = "done"
    /\ \E i \in 1 .. Len(SurfaceCalls), j \in 1 .. Len(SurfaceCalls) :
         /\ i < j
         /\ KindAndArgs(SurfaceCalls[i].arg) = KindAndArgs(SurfaceCalls[j].arg)
         /\ SurfaceCalls[i].arg[1] # SurfaceCalls[j].arg[1]
         /\ SurfaceCalls[j].index < Cardinality(DOMAIN surfaces)

\* C4, as claimed: the material registry is keyed by the sanitized name, so that
\* materials whose names are equal once the pointer suffix is removed get one
\* index, and distinct sanitized names get distinct indices in first-seen order.
C4_MaterialIndexBySanitizedName ==
    LET keys == [k \in 1 .. Len(MaterialCalls) |->
                    StripPointers(MaterialCalls[k].arg.name)]
    IN  \A k \in 1 .. Len(keys) : MaterialCalls[k].index = FirstSeenIndex(keys, k)

\* C4, amended: the material registry is keyed by the name of the source
\* document, pointer suffix included: materials of one source name get one
\* index, and distinct source names get distinct indices in first-seen order,
\* counting from 1, also when their sanitized names are equal.
C4_MaterialIndexBySourceName ==
    LET keys == [k \in 1 .. Len(MaterialCalls) |-> MaterialCalls[k].arg.name]
    IN  /\ \A k \in 1 .. Len(keys) :
             /\ MaterialCalls[k].index = FirstSeenIndex(keys, k)
             /\ keys[k] \in DOMAIN mcnp_materials
             /\ mcnp_materials[keys[k]].index = MaterialCalls[k].index
        /\ \A i \in 1 .. Len(keys), j \in 1 .. Len(keys) :
             (MaterialCalls[i].index = MaterialCalls[j].index) <=> (keys[i] = keys[j])

C4_Witness ==
    /\ pc = "done"
    /\ \E i \in 1 .. Len(MaterialCalls), j \in 1 .. Len(MaterialCalls) :
         /\ i < j
         /\ MaterialCalls[i].arg.name # MaterialCalls[j].arg.name
         /\ StripPointers(MaterialCalls[i].arg.name)
              = StripPointers(MaterialCalls[j].arg.name)
    /\ \E i \in 1 .. Len(MaterialCalls), j \in 1 .. Len(MaterialCalls) :
         i < j /\ MaterialCalls[i].arg.name = MaterialCalls[j].arg.name

\* The offset of a position record in cm, None being no offset.
Offset(position) == Placement(position).val

RECURSIVE AccumulatedPlacement(_)
\* The sum of the offsets on the path from the world down to a node.
AccumulatedPlacement(n) ==
    LET own == Offset(tree[n].position)
    IN  IF n = 1 THEN own
        ELSE LET above == AccumulatedPlacement(ParentOf(n))
             IN  <<above[1] + own[1], above[2] + own[2], above[3] + own[3]>>

\* C5: the position of a cell is relative to the frame of its parent:
\* process_cell converts the volume of every cell at the sum of the offsets on
\* the path from the world down to the cell, and a cell without a position at
\* the accumulated placement of its parent.
C5_ConvertedAtAccumulatedPlacement ==
    \A k \in 1 .. Len(emitted) :
        Offset(emitted[k].position) = AccumulatedPlacement(emitted[k].node)

\* C6: a run in which the conversion of some cell fails never opens nor writes
\* the destination: the destination is opened, and the first line written, only
\* once process_cell has completed for the whole tree, and no failure follows.
C6_NoOutputBeforeWalkCompletes ==
    /\ pc = "raised" => (outfile = "unopened" /\ deck = <<>>)
    /\ (outfile # "unopened" \/ deck # <<>>) =>
         /\ Walked
         /\ stack = <<>>
         /\ Len(mcnp_cells) = Len(tree)

C6_Witness ==
    /\ pc = "raised"
    /\ path # None
    /\ Len(mcnp_cells) >= 1

\* The term of a child in the surfaceTerm of its parent.
NegatedOrTerm(outer) ==
    "(" \o Join([i \in 1 .. Len(outer) |-> StrInt(0 - outer[i])], ":") \o ")"

\* C9: the surfaceTerm of every TargetCell is the signed registry indices of the
\* cell's own outer surfaces (sign times index, in the order of the converter),
\* then one term per direct child, in the order of the children, each being
\* "(" + the child's own outer signed indices, negated and joined by ":" + ")";
\* the value process_cell returns is built from the cell's own outer surfaces
\* alone; and every index of a surfaceTerm is assigned in the registry when the
\* TargetCell is appended.
C9_SurfaceTermOwnOuterThenChildTerms ==
    \A k \in 1 .. Len(emitted) :
        LET cell == tree[emitted[k].node]
            specs == convert_gdml_volume(cell.volume, cell.position).val
            outer == [i \in 1 .. Len(specs) |->
                         specs[i][1] * surfaces[KindAndArgs(specs[i])].index]
            terms == [c \in 1 .. Len(cell.children) |->
                         NegatedOrTerm(emitted[EmittedAt(cell.children[c])].outer)]
        IN  /\ emitted[k].outer = outer
            /\ \A i \in 1 .. Len(specs) :
                 /\ KindAndArgs(specs[i]) \in DOMAIN surfaces
                 /\ Abs(outer[i]) \in 1 .. Cardinality(DOMAIN surfaces)
            /\ mcnp_cells[k].surfaces
                 = Join([i \in 1 .. Len(outer) |-> StrInt(outer[i])] \o terms, " ")
            /\ emitted[k].ret = NegatedOrTerm(outer)

C9_Witness ==
    /\ pc = "done"
    /\ Len(tree) = 3
    /\ Len(tree[1].children) = 1
    /\ Len(tree[2].children) = 1
    /\ Len(emitted[1].outer) >= 4

(***************************************************************************)
(* Properties of convert_gdml_volume (SpecConv).                           *)
(***************************************************************************)
\* 1 / a**2
InverseSquare(numeral) == FDiv(One, FMul(Float(numeral), Float(numeral)))

\* C7: the first SurfaceSpec of an ellipsoid converted at any placement is one
\* quadric card of sign -1 whose arguments are 1/ax^2, 1/by^2, 1/cz^2, then
\* 0, 0, 0, then the constant term -1, then the x, y, z of the placement.
C7_EllipsoidQuadricCard ==
    (cpc = "done" /\ cvolume.tag = "ellipsoid" /\ cresult.err = Ok) =>
        cresult.val[1] =
            <<-1, "SQ", PyFloat(InverseSquare(cvolume.attrib.ax)),
              PyFloat(InverseSquare(cvolume.attrib.by)),
              PyFloat(InverseSquare(cvolume.attrib.cz)),
              PyInt(0), PyInt(0), PyInt(0), PyInt(-1),
              PyFloat(Offset(cposition)[1]), PyFloat(Offset(cposition)[2]),
              PyFloat(Offset(cposition)[3])>>

====
